---- MODULE Spec2Model ----
(***************************************************************************)
(* keystoneauth/access.py: the AccessInfo model (a dict subclass), its V2  *)
(* and V3 adapters and the create() factory, as a state machine over one   *)
(* AccessInfo instance.                                                     *)
(*                                                                         *)
(* Python values are modelled as follows.                                  *)
(*   - a dict is a function from its keys (strings) to its values;         *)
(*   - a str stored in a dict is a TLA+ string ("" is the empty, falsy     *)
(*     str); a list stored in a dict is a sequence;                        *)
(*   - what a call returns or raises is a record [t, v]: t is the Python   *)
(*     type ("None", "str", "bool", "list") or the exception class         *)
(*     ("KeyError", "TypeError", "NotImplementedError"), v the value (for  *)
(*     a KeyError, the missing key).                                       *)
(* ServiceCatalog.factory, timeutils.utcnow, timeutils.parse_isotime and   *)
(* timeutils.normalize_time are collaborators outside access.py: the       *)
(* catalog factory is taken to return normally, the clock is an input.     *)
(***************************************************************************)
EXTENDS Integers, Sequences, FiniteSets, TLC

VARIABLES
    info,    \* the AccessInfo instance: [cls, d], d the dict it is
    hist,    \* history: the last auth_token setter/deleter call on info
    last     \* the last call: [op, arg, val]

vars == <<info, hist, last>>

(***************************************************************************)
(* Bounds.                                                                 *)
(***************************************************************************)
\* timeutils.utcnow() returns a second in 0..MaxNow
MaxNow == 2

(***************************************************************************)
(* Python values.                                                          *)
(***************************************************************************)
PyNone == [t |-> "None", v |-> FALSE]

Str(s) == [t |-> "str", v |-> s]

Bool(b) == [t |-> "bool", v |-> b]

List(s) == [t |-> "list", v |-> s]

Raise(exc, what) == [t |-> exc, v |-> what]

KeyError(k) == Raise("KeyError", k)

Exceptions == {"KeyError", "TypeError", "NotImplementedError"}

IsNone(x) == "t" \in DOMAIN x /\ x.t = "None"

Raised(x) == x.t \in Exceptions

\* bool(x) of a returned value
Truthy(x) ==
    CASE x.t = "None" -> FALSE
      [] x.t = "str"  -> x.v # ""
      [] x.t = "bool" -> x.v
      [] x.t = "list" -> x.v # <<>>

EmptyDict == [k \in {} |-> k]

Has(d, k) == k \in DOMAIN d

\* d.get(k) on a dict whose value at k is a str
Get(d, k) == IF Has(d, k) THEN Str(d[k]) ELSE PyNone

\* d with d[k] = v
SetItem(d, k, v) == (k :> v) @@ d

\* d with k deleted
DelItem(d, k) == [x \in DOMAIN d \ {k} |-> d[x]]

(***************************************************************************)
(* The payloads create() is given.                                         *)
(***************************************************************************)
Opt(k, Vs) == {EmptyDict} \cup {k :> v : v \in Vs}

Req(k, Vs) == {k :> v : v \in Vs}

\* An ISO-8601 timestamp, as parse_isotime reads it: the wall-clock second
\* and the UTC offset of its zone.
Timestamps ==
    { [wall |-> 2, utcoffset |-> 0],
      [wall |-> 3632, utcoffset |-> 3600] }

Catalogs == { <<>>, <<"identity">> }

V2Tenants ==
    { EmptyDict, "id" :> "", "id" :> "p1", "name" :> "proj",
      "id" :> "p1" @@ "name" :> "proj" }

V2Tokens ==
    { i @@ t @@ l @@ e :
        i \in Req("id", {"t1"}), t \in Opt("tenant", V2Tenants),
        l \in Opt("tenantId", {"p3"}), e \in Req("expires", Timestamps) }

V2Users ==
    { i @@ n : i \in Opt("tenantId", {"", "p2"}), n \in Opt("tenantName", {"n2"}) }

\* the contents of an `access` envelope with a token id
V2Valid ==
    { t @@ u @@ c @@ v @@ a :
        t \in Req("token", V2Tokens), u \in Opt("user", V2Users),
        c \in Opt("serviceCatalog", Catalogs), v \in Opt("version", {"bogus"}),
        a \in Opt("auth_token", {"tokP"}) }

\* ... and without one, or with a key that is a parameter of __init__
V2Odd ==
    { EmptyDict,
      "token" :> EmptyDict,
      "token" :> ("tenantId" :> "p3") @@ "user" :> EmptyDict,
      "token" :> ("id" :> "t1") @@ "self" :> "x" }

V2Access == V2Valid \cup V2Odd

V3Domains == { EmptyDict, "id" :> "d1" @@ "name" :> "dom" }

V3Users ==
    { i @@ d @@ f :
        i \in Req("id", {"u1"}),
        d \in Opt("domain", V3Domains \cup {"id" :> "d1"}),
        f \in Opt("OS-FEDERATION", {EmptyDict}) }

V3Projects ==
    { i @@ d :
        i \in {EmptyDict, "id" :> "p1" @@ "name" :> "proj"},
        d \in Opt("domain", V3Domains) }

\* the contents of a `token` envelope
V3Valid ==
    { u @@ p @@ c @@ v @@ a @@ e :
        u \in Req("user", V3Users), p \in Opt("project", V3Projects),
        c \in Opt("catalog", Catalogs), v \in Opt("version", {"bogus"}),
        a \in Opt("auth_token", {"tokP"}), e \in Req("expires_at", Timestamps) }

\* ... and with a key that is a parameter of __init__
V3Odd ==
    { "user" :> ("id" :> "u1") @@ "token" :> ("id" :> "t1"),
      "user" :> ("id" :> "u1") @@ "self" :> "x" }

V3Token == V3Valid \cup V3Odd

\* a few of each, for the bodies that hold both envelopes
V2Few ==
    { a \in V2Access :
        /\ DOMAIN a \subseteq {"token"}
        /\ Has(a, "token") => DOMAIN a["token"] \subseteq {"id", "expires"} }

V3Few ==
    { t \in V3Token :
        /\ DOMAIN t \subseteq {"user", "expires_at", "token"}
        /\ DOMAIN t["user"] = {"id"} }

Bodies ==
    { EmptyDict, "error" :> "x" }
    \cup Req("token", V3Token)
    \cup Req("access", V2Access)
    \cup { t @@ a : t \in Req("token", V3Few), a \in Req("access", V2Few) }

\* a response: what resp.json() returns and resp.headers
Responses ==
    { [json |-> b, headers |-> h] :
        b \in Bodies, h \in Opt("X-Subject-Token", {"tokH"}) }

\* a response whose body the caller has decoded already
SpentResponses == { r \in Responses : r.json = EmptyDict }

AuthTokens == { PyNone, Str(""), Str("tokA") }

(***************************************************************************)
(* Construction.                                                           *)
(***************************************************************************)
NoInfo == [cls |-> "none", d |-> EmptyDict]

NoHist == [kind |-> "none", v |-> ""]

\* Mutant: setdefault('version', ...), which keeps the payload's own version
StampVersion_setdefault(d, version) ==
    IF Has(d, "version") THEN d ELSE SetItem(d, "version", version)

\* self.update(version=...)
StampVersion(d, version) == SetItem(d, "version", version)

\* AccessInfo.auth_token setter
auth_token_set(d, value) == SetItem(d, "auth_token", value)

\* Mutant: a deleter that deletes nothing
auth_token_del_keep(d) == d

\* AccessInfo.auth_token deleter
auth_token_del(d) == IF Has(d, "auth_token") THEN DelItem(d, "auth_token") ELSE d

\* The call cls(..., **kwargs): a key of kwargs that names a positional
\* parameter already bound is a TypeError.
BindsKwargs(params, kwargs) == DOMAIN kwargs \cap params = {}

\* AccessInfoV2(**kwargs): [info, hist], or [raised]
AccessInfoV2(kwargs) ==
    LET d == StampVersion(kwargs, "v2.0")
    IN  IF ~BindsKwargs({"self"}, kwargs) THEN [raised |-> Raise("TypeError", "self")]
        ELSE IF ~Has(d, "token") THEN [raised |-> KeyError("token")]
        ELSE IF ~Has(d["token"], "id") THEN [raised |-> KeyError("id")]
        ELSE [info |-> [cls |-> "V2", d |-> d], hist |-> NoHist]

\* AccessInfoV3(token, **kwargs): [info, hist], or [raised]
AccessInfoV3(token, kwargs) ==
    LET d == StampVersion(kwargs, "v3")
    IN  IF ~BindsKwargs({"self", "token"}, kwargs)
        THEN [raised |-> Raise("TypeError",
                               IF Has(kwargs, "self") THEN "self" ELSE "token")]
        ELSE IF Truthy(token)
        THEN [info |-> [cls |-> "V3", d |-> auth_token_set(d, token.v)],
              hist |-> [kind |-> "set", v |-> token.v]]
        ELSE [info |-> [cls |-> "V3", d |-> d], hist |-> NoHist]

\* bool(x) of an argument of create(): None, a dict or a response
ArgTruthy(x) == ~IsNone(x) /\ x # EmptyDict

\* resp.headers.get('X-Subject-Token')
SubjectToken(resp) == Get(resp.headers, "X-Subject-Token")

\* Mutant: the `access` key is looked for before the `token` key
create_access_first(resp, body, auth_token) ==
    LET body1  == IF ArgTruthy(resp) /\ ~ArgTruthy(body) THEN resp.json ELSE body
        token1 == IF ArgTruthy(resp) /\ ~Truthy(auth_token)
                  THEN SubjectToken(resp) ELSE auth_token
    IN  IF IsNone(body1) THEN [raised |-> Raise("TypeError", "body")]
        ELSE IF Has(body1, "access") THEN AccessInfoV2(body1["access"])
        ELSE IF Has(body1, "token") THEN AccessInfoV3(token1, body1["token"])
        ELSE [raised |-> Raise("NotImplementedError", "Unrecognized auth response")]

\* create(resp, body, auth_token): [info, hist], or [raised]
create(resp, body, auth_token) ==
    LET body1  == IF ArgTruthy(resp) /\ ~ArgTruthy(body) THEN resp.json ELSE body
        token1 == IF ArgTruthy(resp) /\ ~Truthy(auth_token)
                  THEN SubjectToken(resp) ELSE auth_token
    IN  IF IsNone(body1) THEN [raised |-> Raise("TypeError", "body")]
        ELSE IF Has(body1, "token") THEN AccessInfoV3(token1, body1["token"])
        ELSE IF Has(body1, "access") THEN AccessInfoV2(body1["access"])
        ELSE [raised |-> Raise("NotImplementedError", "Unrecognized auth response")]

(***************************************************************************)
(* AccessInfo: what the base class implements.                             *)
(***************************************************************************)
STALE_TOKEN_DURATION == 30

Seconds(n) == [t |-> "int", v |-> n]

DateTime(ts) == [t |-> "datetime", v |-> ts]

\* timeutils.parse_isotime: the timezone-aware datetime of the string
parse_isotime(ts) == DateTime(ts)

\* timeutils.normalize_time: the naive UTC second of an aware datetime
normalize_time(dt) == dt.v.wall - dt.v.utcoffset

\* Mutant: self.get('auth_token'), absent instead of a lookup error
AccessInfo_auth_token_get(d) == Get(d, "auth_token")

\* AccessInfo.auth_token getter
AccessInfo_auth_token(d) ==
    IF Has(d, "auth_token") THEN Str(d["auth_token"]) ELSE KeyError("auth_token")

\* AccessInfo.version
version(i) == Get(i.d, "version")

(***************************************************************************)
(* AccessInfoV2                                                            *)
(***************************************************************************)
V2_has_service_catalog(d) == Bool(Has(d, "serviceCatalog"))

V2_auth_token(d) ==
    IF ~Raised(AccessInfo_auth_token(d)) THEN AccessInfo_auth_token(d)
    ELSE IF ~Has(d, "token") THEN KeyError("token")
    ELSE IF ~Has(d["token"], "id") THEN KeyError("id")
    ELSE Str(d["token"]["id"])

V2_expires(d) ==
    IF ~Has(d, "token") THEN KeyError("token")
    ELSE IF ~Has(d["token"], "expires") THEN KeyError("expires")
    ELSE parse_isotime(d["token"]["expires"])

\* Mutant: no token.tenantId tier for the name
V2_project_name_two_tiers(d) ==
    IF Has(d, "token") /\ Has(d["token"], "tenant")
    THEN Get(d["token"]["tenant"], "name")
    ELSE IF Has(d, "user") /\ Has(d["user"], "tenantName")
    THEN Str(d["user"]["tenantName"])
    ELSE PyNone

V2_project_name(d) ==
    IF Has(d, "token") /\ Has(d["token"], "tenant")
    THEN Get(d["token"]["tenant"], "name")
    ELSE IF Has(d, "user") /\ Has(d["user"], "tenantName")
    THEN Str(d["user"]["tenantName"])
    ELSE IF Has(d, "token") /\ Has(d["token"], "tenantId")
    THEN Str(d["token"]["tenantId"])
    ELSE PyNone

\* Mutant: a tier is skipped when its value is missing or falsy
V2_project_id_skip_falsy(d) ==
    IF /\ Has(d, "token") /\ Has(d["token"], "tenant")
       /\ Truthy(Get(d["token"]["tenant"], "id"))
    THEN Get(d["token"]["tenant"], "id")
    ELSE IF Has(d, "user") /\ Truthy(Get(d["user"], "tenantId"))
    THEN Str(d["user"]["tenantId"])
    ELSE IF Has(d, "token") /\ Has(d["token"], "tenantId")
    THEN Str(d["token"]["tenantId"])
    ELSE PyNone

V2_project_id(d) ==
    IF Has(d, "token") /\ Has(d["token"], "tenant")
    THEN Get(d["token"]["tenant"], "id")
    ELSE IF Has(d, "user") /\ Has(d["user"], "tenantId")
    THEN Str(d["user"]["tenantId"])
    ELSE IF Has(d, "token") /\ Has(d["token"], "tenantId")
    THEN Str(d["token"]["tenantId"])
    ELSE PyNone

\* Mutant: an empty catalog counts
V2_scoped_any_catalog(d) ==
    Bool(Has(d, "serviceCatalog") /\ Has(d["token"], "tenant"))

V2_scoped(d) ==
    IF /\ Has(d, "serviceCatalog")
       /\ d["serviceCatalog"] # <<>>
       /\ Has(d["token"], "tenant")
    THEN Bool(TRUE)
    ELSE Bool(FALSE)

V2_project_scoped(d) == Bool(Has(d["token"], "tenant"))

V2_project_domain_id(d) ==
    IF Truthy(V2_project_id(d)) THEN Str("default") ELSE PyNone

V2_project_domain_name(d) ==
    IF Truthy(V2_project_id(d)) THEN Str("Default") ELSE PyNone

V2_user_domain_id(d) == Str("default")

V2_user_domain_name(d) == Str("Default")

V2_is_federated(d) == Bool(FALSE)

(***************************************************************************)
(* AccessInfoV3                                                            *)
(***************************************************************************)
V3_has_service_catalog(d) == Bool(Has(d, "catalog"))

V3_is_federated(d) ==
    IF ~Has(d, "user") THEN KeyError("user")
    ELSE Bool(Has(d["user"], "OS-FEDERATION"))

V3_expires(d) ==
    IF ~Has(d, "expires_at") THEN KeyError("expires_at")
    ELSE parse_isotime(d["expires_at"])

\* Mutant: a missing value is absent, federated or not
V3_user_domain_lenient(d, field) ==
    IF Has(d, "user") /\ Has(d["user"], "domain") /\ Has(d["user"]["domain"], field)
    THEN Str(d["user"]["domain"][field])
    ELSE PyNone

\* user_domain_id (field "id") and user_domain_name (field "name")
V3_user_domain(d, field) ==
    LET missing == IF ~Has(d, "user") THEN KeyError("user")
                   ELSE IF ~Has(d["user"], "domain") THEN KeyError("domain")
                   ELSE IF ~Has(d["user"]["domain"], field) THEN KeyError(field)
                   ELSE PyNone
    IN  IF ~Raised(missing) THEN Str(d["user"]["domain"][field])
        ELSE IF Raised(V3_is_federated(d)) THEN V3_is_federated(d)
        ELSE IF Truthy(V3_is_federated(d)) THEN PyNone
        ELSE missing

V3_user_domain_id(d) == V3_user_domain(d, "id")

V3_user_domain_name(d) == V3_user_domain(d, "name")

\* project = self.get('project'); if project: ... (an empty dict is falsy)
V3_project_given(d) == Has(d, "project") /\ d["project"] # EmptyDict

\* project_id (field "id") and project_name (field "name")
V3_project(d, field) ==
    IF V3_project_given(d)
    THEN IF Has(d["project"], field) THEN Str(d["project"][field])
         ELSE KeyError(field)
    ELSE PyNone

V3_project_id(d) == V3_project(d, "id")

V3_project_name(d) == V3_project(d, "name")

\* Mutant: project.get('domain', {}).get(field), absent instead of an error
V3_project_domain_get(d, field) ==
    IF V3_project_given(d) /\ Has(d["project"], "domain")
    THEN Get(d["project"]["domain"], field)
    ELSE PyNone

\* project_domain_id (field "id") and project_domain_name (field "name")
V3_project_domain(d, field) ==
    IF V3_project_given(d)
    THEN IF ~Has(d["project"], "domain") THEN KeyError("domain")
         ELSE IF ~Has(d["project"]["domain"], field) THEN KeyError(field)
         ELSE Str(d["project"]["domain"][field])
    ELSE PyNone

V3_project_domain_id(d) == V3_project_domain(d, "id")

V3_project_domain_name(d) == V3_project_domain(d, "name")

\* `a and b and c` is the first falsy operand, or the last one
V3_scoped(d) ==
    IF ~Has(d, "catalog") THEN Bool(FALSE)
    ELSE IF d["catalog"] = <<>> THEN List(d["catalog"])
    ELSE Bool(Has(d, "project"))

V3_project_scoped(d) == Bool(Has(d, "project"))

(***************************************************************************)
(* The attributes of an instance, by its class.                            *)
(***************************************************************************)
has_service_catalog(i) ==
    IF i.cls = "V2" THEN V2_has_service_catalog(i.d) ELSE V3_has_service_catalog(i.d)

auth_token(i) ==
    IF i.cls = "V2" THEN V2_auth_token(i.d) ELSE AccessInfo_auth_token(i.d)

expires(i) == IF i.cls = "V2" THEN V2_expires(i.d) ELSE V3_expires(i.d)

project_name(i) ==
    IF i.cls = "V2" THEN V2_project_name(i.d) ELSE V3_project_name(i.d)

project_id(i) == IF i.cls = "V2" THEN V2_project_id(i.d) ELSE V3_project_id(i.d)

tenant_name(i) == project_name(i)

tenant_id(i) == project_id(i)

project_domain_id(i) ==
    IF i.cls = "V2" THEN V2_project_domain_id(i.d) ELSE V3_project_domain_id(i.d)

project_domain_name(i) ==
    IF i.cls = "V2" THEN V2_project_domain_name(i.d)
    ELSE V3_project_domain_name(i.d)

user_domain_id(i) ==
    IF i.cls = "V2" THEN V2_user_domain_id(i.d) ELSE V3_user_domain_id(i.d)

user_domain_name(i) ==
    IF i.cls = "V2" THEN V2_user_domain_name(i.d) ELSE V3_user_domain_name(i.d)

is_federated(i) == IF i.cls = "V2" THEN V2_is_federated(i.d) ELSE V3_is_federated(i.d)

scoped(i) == IF i.cls = "V2" THEN V2_scoped(i.d) ELSE V3_scoped(i.d)

project_scoped(i) ==
    IF i.cls = "V2" THEN V2_project_scoped(i.d) ELSE V3_project_scoped(i.d)

\* Mutant: `stale_duration or STALE_TOKEN_DURATION`, so 0 is the default
will_expire_soon_or_default(i, stale_duration, now) ==
    LET stale == IF IsNone(stale_duration) \/ stale_duration.v = 0
                 THEN STALE_TOKEN_DURATION
                 ELSE stale_duration.v
        soon  == now + stale
    IN  IF Raised(expires(i)) THEN expires(i)
        ELSE Bool(normalize_time(expires(i)) < soon)

\* AccessInfo.will_expire_soon(stale_duration), timeutils.utcnow() being now
will_expire_soon(i, stale_duration, now) ==
    LET stale == IF IsNone(stale_duration) THEN STALE_TOKEN_DURATION
                 ELSE stale_duration.v
        soon  == now + stale
    IN  IF Raised(expires(i)) THEN expires(i)
        ELSE Bool(normalize_time(expires(i)) < soon)

\* the value of the attribute called name
GetAttr(i, name) ==
    CASE name = "has_service_catalog" -> has_service_catalog(i)
      [] name = "auth_token"          -> auth_token(i)
      [] name = "expires"             -> expires(i)
      [] name = "version"             -> version(i)
      [] name = "project_name"        -> project_name(i)
      [] name = "tenant_name"         -> tenant_name(i)
      [] name = "project_id"          -> project_id(i)
      [] name = "tenant_id"           -> tenant_id(i)
      [] name = "project_domain_id"   -> project_domain_id(i)
      [] name = "project_domain_name" -> project_domain_name(i)
      [] name = "user_domain_id"      -> user_domain_id(i)
      [] name = "user_domain_name"    -> user_domain_name(i)
      [] name = "is_federated"        -> is_federated(i)
      [] name = "scoped"              -> scoped(i)
      [] name = "project_scoped"      -> project_scoped(i)

Attributes ==
    { "has_service_catalog", "auth_token", "expires", "version", "project_name",
      "tenant_name", "project_id", "tenant_id", "project_domain_id",
      "project_domain_name", "user_domain_id", "user_domain_name",
      "is_federated", "scoped", "project_scoped" }

(***************************************************************************)
(* The state machine.                                                      *)
(***************************************************************************)
NoArg == [none |-> TRUE]

Init ==
    /\ info = NoInfo
    /\ hist = NoHist
    /\ last = [op |-> "none", arg |-> NoArg, val |-> PyNone]

\* create(resp, body, auth_token) is called
Call(resp, body, token) ==
    LET a == [resp |-> resp, body |-> body, auth_token |-> token]
        r == create(resp, body, token)
    IN  IF Has(r, "raised")
        THEN /\ last' = [op |-> "create", arg |-> a, val |-> r.raised]
             /\ UNCHANGED <<info, hist>>
        ELSE /\ info' = r.info
             /\ hist' = r.hist
             /\ last' = [op |-> "create", arg |-> a, val |-> PyNone]

\* The factory is the sole entry point and an instance is constructed once:
\* from a decoded body, from a response, or from both.
Create ==
    /\ last.op = "none"
    /\ \/ \E b \in Bodies \cup {PyNone}, a \in AuthTokens :
            Call(PyNone, b, a)
       \/ \E r \in Responses, b \in {PyNone, EmptyDict}, a \in AuthTokens :
            Call(r, b, a)
       \/ \E r \in SpentResponses, b \in Bodies, a \in AuthTokens :
            Call(r, b, a)

\* The caller reads every attribute of info (the reads change nothing, so
\* their order is immaterial): val[name] is what info.<name> returned or raised.
Read ==
    /\ info # NoInfo
    /\ last' = [op |-> "read", arg |-> NoArg,
                val |-> [name \in Attributes |-> GetAttr(info, name)]]
    /\ UNCHANGED <<info, hist>>

\* the values a caller stores as the bearer token
SetValues == { "", "tokA" }

\* info.auth_token = value
SetAuthToken ==
    /\ info # NoInfo
    /\ \E value \in SetValues :
         /\ info' = [info EXCEPT !.d = auth_token_set(@, value)]
         /\ hist' = [kind |-> "set", v |-> value]
         /\ last' = [op |-> "set_auth_token", arg |-> Str(value), val |-> PyNone]

\* del info.auth_token
DelAuthToken ==
    /\ info # NoInfo
    /\ info' = [info EXCEPT !.d = auth_token_del(@)]
    /\ hist' = [kind |-> "del", v |-> ""]
    /\ last' = [op |-> "del_auth_token", arg |-> NoArg, val |-> PyNone]

\* the stale_duration arguments: not given (None), or seconds
StaleDurations == { PyNone, Seconds(0), Seconds(1), Seconds(31) }

\* info.will_expire_soon(stale_duration) at the second now
WillExpireSoon ==
    /\ info # NoInfo
    /\ \E sd \in StaleDurations, now \in 0..MaxNow :
         last' = [op |-> "will_expire_soon",
                  arg |-> [stale_duration |-> sd, now |-> now],
                  val |-> will_expire_soon(info, sd, now)]
    /\ UNCHANGED <<info, hist>>

Next ==
    \/ Create
    \/ Read
    \/ SetAuthToken
    \/ DelAuthToken
    \/ WillExpireSoon

Spec == Init /\ [][Next]_vars

(***************************************************************************)
(* Properties.  Reads is a state in which the caller has just read the     *)
(* attributes; Got(name) is what info.<name> gave.  Payload is the decoded *)
(* body create() worked on, in the state create() leaves.                  *)
(***************************************************************************)
Reads(cls) == last.op = "read" /\ info.cls = cls

Got(name) == last.val[name]

Created == last.op = "create"

Payload ==
    IF ~IsNone(last.arg.resp) /\ (IsNone(last.arg.body) \/ last.arg.body = EmptyDict)
    THEN last.arg.resp.json
    ELSE last.arg.body

\* the instance holds every entry of the envelope but those in except
BuiltFrom(envelope, except) ==
    /\ DOMAIN envelope \subseteq DOMAIN info.d
    /\ \A k \in DOMAIN envelope \ except : info.d[k] = envelope[k]

Unrecognized ==
    /\ last.val = Raise("NotImplementedError", "Unrecognized auth response")
    /\ info = NoInfo

\* C1, as claimed: a payload with a `token` key gives a V3 AccessInfo (also
\* when it has an `access` key too); otherwise one with an `access` key gives
\* a V2 AccessInfo built from the contents of `access`; one with neither key
\* fails with the unrecognized-response error and gives no AccessInfo.
C1_AsClaimed ==
    (Created /\ ~IsNone(Payload)) =>
        IF Has(Payload, "token")
        THEN info.cls = "V3"
        ELSE IF Has(Payload, "access")
        THEN info.cls = "V2" /\ BuiltFrom(Payload["access"], {"version"})
        ELSE Unrecognized

\* C1, amended: a `token` key selects the V3 constructor (also when `access`
\* is present), an `access` key alone the V2 constructor, neither key fails
\* with the unrecognized-response error and no AccessInfo.  The selected
\* constructor gives the AccessInfo built from the envelope's contents,
\* except that V2 construction raises KeyError when the contents lack
\* token.id, and the call raises TypeError when the contents have a key that
\* names a constructor parameter (`self`, and for V3 `token`).
C1_Dispatch ==
    (Created /\ ~IsNone(Payload)) =>
        IF Has(Payload, "token")
        THEN IF DOMAIN Payload["token"] \cap {"self", "token"} # {}
             THEN last.val.t = "TypeError" /\ info = NoInfo
             ELSE /\ info.cls = "V3"
                  /\ BuiltFrom(Payload["token"], {"version", "auth_token"})
                  /\ ~Raised(last.val)
        ELSE IF Has(Payload, "access")
        THEN IF Has(Payload["access"], "self")
             THEN last.val.t = "TypeError" /\ info = NoInfo
             ELSE IF /\ Has(Payload["access"], "token")
                     /\ Has(Payload["access"]["token"], "id")
             THEN /\ info.cls = "V2"
                  /\ BuiltFrom(Payload["access"], {"version"})
                  /\ ~Raised(last.val)
             ELSE last.val.t = "KeyError" /\ info = NoInfo
        ELSE Unrecognized

\* C1 witness: a payload with both envelopes gave a V3 AccessInfo
C1_Witness ==
    /\ Created
    /\ ~IsNone(Payload)
    /\ Has(Payload, "token") /\ Has(Payload, "access")
    /\ info.cls = "V3"

\* a V2 payload in which, of the tenant fields, only token.tenantId is set
OnlyTenantId ==
    /\ ~Has(info.d["token"], "tenant")
    /\ Has(info.d["token"], "tenantId")
    /\ Has(info.d, "user") =>
         ~Has(info.d["user"], "tenantName") /\ ~Has(info.d["user"], "tenantId")

\* C2, as claimed: with only token.tenantId set, projectName is absent and
\* projectId is token.tenantId.
C2_AsClaimed ==
    (Reads("V2") /\ OnlyTenantId) =>
        /\ Got("project_name") = PyNone
        /\ Got("project_id") = Str(info.d["token"]["tenantId"])

\* C2, amended: with only token.tenantId set, projectName and projectId both
\* equal token.tenantId (the id stands in for the name).
C2_TenantIdOnly ==
    (Reads("V2") /\ OnlyTenantId) =>
        /\ Got("project_name") = Str(info.d["token"]["tenantId"])
        /\ Got("project_id") = Str(info.d["token"]["tenantId"])
        /\ Got("tenant_name") = Got("project_name")

\* C2 witness: the attributes of such a payload have been read
C2_Witness ==
    /\ Reads("V2")
    /\ OnlyTenantId
    /\ Got("project_name") = Str("p3")

\* the tiers of the V2 project id whose keys are all present
Tier1 == Has(info.d["token"], "tenant") /\ Has(info.d["token"]["tenant"], "id")

Tier2 == Has(info.d, "user") /\ Has(info.d["user"], "tenantId")

Tier3 == Has(info.d["token"], "tenantId")

\* C3, as claimed: projectId is the value of the first of the tiers
\* token.tenant.id, user.tenantId, token.tenantId whose keys are all present
\* (a tenant without id moves on to the next tier), falsy or not, and absent
\* only when no tier has all its keys.
C3_AsClaimed ==
    Reads("V2") =>
        Got("project_id") =
            IF Tier1 THEN Str(info.d["token"]["tenant"]["id"])
            ELSE IF Tier2 THEN Str(info.d["user"]["tenantId"])
            ELSE IF Tier3 THEN Str(info.d["token"]["tenantId"])
            ELSE PyNone

\* C3, amended: when token.tenant is present projectId is token.tenant.id,
\* or absent if the tenant has no id, and no later tier is consulted;
\* when token.tenant is missing it is user.tenantId if that key is present
\* (falsy or not), else token.tenantId if that key is present, else absent.
C3_Tiers ==
    Reads("V2") =>
        /\ Has(info.d["token"], "tenant") =>
             Got("project_id") = IF Tier1 THEN Str(info.d["token"]["tenant"]["id"])
                                 ELSE PyNone
        /\ (~Has(info.d["token"], "tenant") /\ Tier2) =>
             Got("project_id") = Str(info.d["user"]["tenantId"])
        /\ (~Has(info.d["token"], "tenant") /\ ~Tier2 /\ Tier3) =>
             Got("project_id") = Str(info.d["token"]["tenantId"])
        /\ (~Has(info.d["token"], "tenant") /\ ~Tier2 /\ ~Tier3) =>
             Got("project_id") = PyNone

\* C3 witness: a falsy user.tenantId was returned, not skipped for a
\* truthy token.tenantId
C3_Witness ==
    /\ Reads("V2")
    /\ ~Has(info.d["token"], "tenant")
    /\ Tier2 /\ info.d["user"]["tenantId"] = ""
    /\ Tier3
    /\ Got("project_id") = Str("")

\* what project_domain_id and project_domain_name gave, by field
GotProjectDomain(field) ==
    IF field = "id" THEN Got("project_domain_id") ELSE Got("project_domain_name")

\* C4, as claimed: with `project` and `project.domain` present the two
\* attributes are project.domain.id and project.domain.name; with `project`
\* present, whatever its contents, but no `project.domain`, reading them
\* fails with a lookup error; without `project` both are absent.
C4_AsClaimed ==
    Reads("V3") => \A field \in {"id", "name"} :
        IF ~Has(info.d, "project") THEN GotProjectDomain(field) = PyNone
        ELSE IF ~Has(info.d["project"], "domain")
        THEN GotProjectDomain(field).t = "KeyError"
        ELSE Has(info.d["project"]["domain"], field) =>
               GotProjectDomain(field) = Str(info.d["project"]["domain"][field])

\* C4, amended: as claimed for a `project` that is a non-empty object (and a
\* domain that lacks the field read is a lookup error too); when `project`
\* is missing or is an empty object both attributes are absent.
C4_ProjectDomain ==
    Reads("V3") => \A field \in {"id", "name"} :
        IF ~Has(info.d, "project") \/ info.d["project"] = EmptyDict
        THEN GotProjectDomain(field) = PyNone
        ELSE IF ~Has(info.d["project"], "domain")
        THEN GotProjectDomain(field) = KeyError("domain")
        ELSE IF ~Has(info.d["project"]["domain"], field)
        THEN GotProjectDomain(field) = KeyError(field)
        ELSE GotProjectDomain(field) = Str(info.d["project"]["domain"][field])

\* C4 witness: a non-empty project without domain made the read fail
C4_Witness ==
    /\ Reads("V3")
    /\ Has(info.d, "project")
    /\ info.d["project"] # EmptyDict
    /\ ~Has(info.d["project"], "domain")
    /\ Got("project_domain_id") = KeyError("domain")

\* what user_domain_id and user_domain_name gave, by field
GotUserDomain(field) ==
    IF field = "id" THEN Got("user_domain_id") ELSE Got("user_domain_name")

UserDomainHas(field) ==
    Has(info.d["user"], "domain") /\ Has(info.d["user"]["domain"], field)

\* C5: for a V3 payload with a `user` object, userDomainId/userDomainName are
\* user.domain.id / user.domain.name when present; when the value is missing
\* they are absent if `user` has the OS-FEDERATION key, and the read fails
\* with a lookup error, no default substituted, if it has not.
C5_UserDomain ==
    (Reads("V3") /\ Has(info.d, "user")) => \A field \in {"id", "name"} :
        IF UserDomainHas(field)
        THEN GotUserDomain(field) = Str(info.d["user"]["domain"][field])
        ELSE IF Has(info.d["user"], "OS-FEDERATION")
        THEN GotUserDomain(field) = PyNone
        ELSE GotUserDomain(field).t = "KeyError"

\* C5 witness: a user that is not federated and has no domain name
C5_Witness ==
    /\ Reads("V3")
    /\ Has(info.d["user"], "domain")
    /\ ~UserDomainHas("name")
    /\ ~Has(info.d["user"], "OS-FEDERATION")
    /\ Got("user_domain_name") = KeyError("name")
    /\ Got("user_domain_id").t = "str"

\* the UTC second at which info expires
ExpiresAt ==
    LET ts == IF info.cls = "V2" THEN info.d["token"]["expires"]
              ELSE info.d["expires_at"]
    IN  ts.wall - ts.utcoffset

\* C6: willExpireSoon(staleDuration) is true iff expires is strictly earlier
\* than now + staleDuration, staleDuration being 30 when not given: true for
\* expires = now, false for expires = now + 30 and now + 31; a staleDuration
\* of 0 is used as 0.
C6_WillExpireSoon ==
    last.op = "will_expire_soon" =>
        LET now   == last.arg.now
            given == ~IsNone(last.arg.stale_duration)
            stale == IF given THEN last.arg.stale_duration.v ELSE 30
        IN  /\ last.val = Bool(ExpiresAt < now + stale)
            /\ (~given /\ ExpiresAt = now) => last.val = Bool(TRUE)
            /\ (~given /\ ExpiresAt = now + 30) => last.val = Bool(FALSE)
            /\ (~given /\ ExpiresAt = now + 31) => last.val = Bool(FALSE)
            /\ (given /\ stale = 0 /\ ExpiresAt = now) => last.val = Bool(FALSE)

\* C6 witness: a stale duration of 0 at the second of expiry
C6_Witness ==
    /\ last.op = "will_expire_soon"
    /\ last.arg.stale_duration = Seconds(0)
    /\ ExpiresAt = last.arg.now
    /\ last.val = Bool(FALSE)

\* clearing the token when none is stored changes nothing and does not fail
C7_ClearIsNoOp ==
    (DelAuthToken /\ ~Has(info.d, "auth_token")) =>
        info' = info /\ last'.val = PyNone

\* C7, as claimed: on a V2 instance authToken is the value set last if no
\* clear came after it, and token.id otherwise (never set, or cleared last).
C7_AsClaimed ==
    Reads("V2") =>
        Got("auth_token") = IF hist.kind = "set" THEN Str(hist.v)
                            ELSE Str(info.d["token"]["id"])

\* C7, amended: on a V2 instance authToken is the value set last if no clear
\* came after it; token.id if the last such call was a clear; and, before any
\* set or clear, the `auth_token` entry of the access payload if it has one,
\* else token.id.  Clearing when nothing is stored is a no-op and does not
\* fail.
C7_AuthToken ==
    /\ [](Reads("V2") =>
            Got("auth_token") =
                CASE hist.kind = "set"  -> Str(hist.v)
                  [] hist.kind = "del"  -> Str(info.d["token"]["id"])
                  [] hist.kind = "none" ->
                       IF Has(info.d, "auth_token") THEN Str(info.d["auth_token"])
                       ELSE Str(info.d["token"]["id"]))
    /\ [][C7_ClearIsNoOp]_vars

\* C7 witness: a token was set and then cleared, and token.id is read
C7_Witness ==
    /\ Reads("V2")
    /\ hist.kind = "del"
    /\ Got("auth_token") = Str("t1")

\* the version of each adapter
VersionOf(cls) == IF cls = "V2" THEN "v2.0" ELSE "v3"

\* C8: version is "v3" on every V3 instance and "v2.0" on every V2 instance,
\* also when the payload has a `version` key of its own, in every state that
\* reads and authToken set/clear calls reach.
C8_Version ==
    info # NoInfo =>
        /\ version(info) = Str(VersionOf(info.cls))
        /\ last.op = "read" => Got("version") = Str(VersionOf(info.cls))

\* C8 witness: an instance made from a payload with another `version`
C8_Witness ==
    /\ Created
    /\ info.cls = "V3"
    /\ Has(Payload["token"], "version")
    /\ Payload["token"]["version"] # "v3"

\* the catalog and project fields of each adapter
CatalogKey == IF info.cls = "V2" THEN "serviceCatalog" ELSE "catalog"

ProjectPresent ==
    IF info.cls = "V2" THEN Has(info.d["token"], "tenant") ELSE Has(info.d, "project")

CatalogPopulated == Has(info.d, CatalogKey) /\ info.d[CatalogKey] # <<>>

Bearer ==
    IF ~IsNone(last.arg.resp) /\ ~Truthy(last.arg.auth_token)
    THEN Get(last.arg.resp.headers, "X-Subject-Token")
    ELSE last.arg.auth_token

\* C10: on a V3 instance authToken is the bearer value given to the
\* constructor, or the value set last, while one is stored; constructed with
\* no bearer value or an empty one from a payload without `auth_token`, or
\* after a clear, reading it fails with a lookup error; there is no fallback
\* and absent is never returned.
C10_AuthTokenV3 ==
    /\ Reads("V3") =>
         /\ hist.kind = "set" => Got("auth_token") = Str(hist.v)
         /\ hist.kind = "del" => Got("auth_token") = KeyError("auth_token")
         /\ (hist.kind = "none" /\ ~Has(info.d, "auth_token")) =>
              Got("auth_token") = KeyError("auth_token")
         /\ Got("auth_token") # PyNone
    /\ (Created /\ info.cls = "V3") =>
         IF Truthy(Bearer) THEN auth_token(info) = Bearer
         ELSE ~Has(Payload["token"], "auth_token") =>
                auth_token(info) = KeyError("auth_token")

\* C10 witness: the bearer value was cleared and the read failed
C10_Witness ==
    /\ Reads("V3")
    /\ hist.kind = "del"
    /\ Got("auth_token") = KeyError("auth_token")

====
